---- MODULE Spec2Model ----
(***************************************************************************)
(* Model of the resume analyzer server (src/server.js): the handler of     *)
(* POST /resume/upload, split at its three awaits (pdfParse,               *)
(* extractTextFromImage, askGeminiForJSON), and the two-tier JSON decode   *)
(* of askGeminiForJSON.                                                    *)
(*                                                                         *)
(* Strings that the code measures, trims or slices are sequences of        *)
(* one-character strings.  An optional JavaScript value (undefined or a    *)
(* value) is a sequence of length 0 or 1.                                  *)
(***************************************************************************)
EXTENDS Integers, Sequences, FiniteSets, TLC

VARIABLES
    pc,          \* position of the handler: idle, awaitPdf, awaitOcr, awaitAi, responded
    req,         \* the request: [file, targetRole] as multer leaves it
    targetRole,  \* const targetRole (line 87)
    resumeText,  \* let resumeText (line 91)
    aiResult,    \* what `await askGeminiForJSON(prompt)` produced: analysis or err
    pdfOutcome,  \* what pdfParse did for this request (environment)
    ocrOutcome,  \* what Tesseract.recognize did for this request (environment)
    aiOutcome,   \* the kind of thing model.generateContent did for this request (environment)
    pdfCalls,    \* arguments of the calls of pdfParse
    ocrCalls,    \* arguments of the calls of Tesseract.recognize
    aiCalls,     \* arguments of the calls of model.generateContent
    responses,   \* responses written to res, in order
    reply,       \* raw reply under decode (decode specification only)
    decoded      \* result of decoding `reply` (decode specification only)

vars == <<pc, req, targetRole, resumeText, aiResult, pdfOutcome, ocrOutcome, aiOutcome,
          pdfCalls, ocrCalls, aiCalls, responses, reply, decoded>>

----------------------------------------------------------------------------
(* Bounds and program constants *)

\* Longest leading / trailing whitespace run of a generated text.
MaxPad == 1

\* How far the body of a generated text may exceed the length threshold.
Slack == 1

\* Longest raw AI reply.
MaxRawLen == 4

\* The minimum trimmed length of a usable resume text (line 124).
MinTextLen == 50

DefaultRole == "Software Developer (Fresher)"

MsgMissingFile == "File not uploaded"
MsgNoTextFound == "Could not extract text from PDF. Please upload a proper text-based resume."
MsgOcrFailed == "OCR extraction failed: "
MsgTextTooShort == "Extracted text is too short. Please upload a valid resume PDF."
MsgAiFailed == "AI analysis failed. Please try again."
MsgNoJson == "Gemini did not return JSON."
MsgSyntaxError == "SyntaxError"

----------------------------------------------------------------------------
(* Strings *)

WhiteSpace == {" ", "\n", "\t"}

SetMin(S) == CHOOSE x \in S : \A y \in S : x <= y
SetMax(S) == CHOOSE x \in S : \A y \in S : x >= y

\* String.prototype.trim: drop the leading and the trailing whitespace.
Trim(s) ==
    LET solid == {i \in 1..Len(s) : s[i] \notin WhiteSpace}
    IN  IF solid = {} THEN <<>> ELSE SubSeq(s, SetMin(solid), SetMax(solid))

\* String.prototype.indexOf(c): 0-based, -1 when absent.
IndexOf(s, c) ==
    LET at == {i \in 1..Len(s) : s[i] = c}
    IN  IF at = {} THEN -1 ELSE SetMin(at) - 1

\* String.prototype.lastIndexOf(c): 0-based, -1 when absent.
LastIndexOf(s, c) ==
    LET at == {i \in 1..Len(s) : s[i] = c}
    IN  IF at = {} THEN -1 ELSE SetMax(at) - 1

\* String.prototype.slice(b, e): 0-based, e exclusive, negatives count from the end.
Slice(s, b, e) ==
    LET n == Len(s)
        from == IF b < 0 THEN (IF n + b < 0 THEN 0 ELSE n + b) ELSE (IF b > n THEN n ELSE b)
        to == IF e < 0 THEN (IF n + e < 0 THEN 0 ELSE n + e) ELSE (IF e > n THEN n ELSE e)
    IN  IF to <= from THEN <<>> ELSE SubSeq(s, from + 1, to)

Rep(c, n) == [i \in 1..n |-> c]

\* A text body of n characters; bodies of three or more hold an inner blank.
Body(n) == [i \in 1..n |-> IF i = 2 /\ n >= 3 THEN " " ELSE "a"]

MaxBody == MinTextLen + Slack

\* The texts an extractor may produce.
Texts ==
    {Rep(" ", l) \o Body(n) \o Rep("\n", t) : l \in 0..MaxPad, n \in 0..MaxBody, t \in 0..MaxPad}

ErrorMessages == {"bad XRef entry", "worker terminated"}

----------------------------------------------------------------------------
(* JSON.parse, restricted to texts over the alphabet RawAlphabet.  Over it  *)
(* the JSON texts are: a run of digits, or an empty object, either one      *)
(* surrounded by optional whitespace.                                       *)

RawAlphabet == {"{", "}", "1", " ", "x"}

RECURSIVE SeqsUpTo(_)
SeqsUpTo(n) ==
    IF n = 0 THEN {<<>>}
    ELSE LET shorter == SeqsUpTo(n - 1)
         IN  shorter \cup {Append(s, c) : s \in {t \in shorter : Len(t) = n - 1}, c \in RawAlphabet}

\* The raw replies the AI service may give.
RawReplies == SeqsUpTo(MaxRawLen)

RECURSIVE Ones(_)
Ones(n) == IF n = 0 THEN 0 ELSE 10 * Ones(n - 1) + 1

NoValue == [type |-> "none", num |-> 0]

JSONParse(s) ==
    LET t == Trim(s)
        n == Len(t)
    IN  IF n >= 1 /\ \A i \in 1..n : t[i] = "1"
        THEN [ok |-> TRUE, value |-> [type |-> "number", num |-> Ones(n)]]
        ELSE IF n >= 2 /\ t[1] = "{" /\ t[n] = "}" /\ \A i \in 2..(n - 1) : t[i] \in WhiteSpace
        THEN [ok |-> TRUE, value |-> [type |-> "object", num |-> 0]]
        ELSE [ok |-> FALSE, value |-> NoValue]

Returns(v) == [kind |-> "returns", value |-> v, message |-> ""]
Throws(v, m) == [kind |-> "throws", value |-> v, message |-> m]

\* Variant: the recovered text ends at the first "}".
DecodeReplyFirstClose(raw) ==
    IF JSONParse(raw).ok THEN Returns(JSONParse(raw).value)
    ELSE LET first == IndexOf(raw, "{")
             last == IndexOf(raw, "}")
         IN  IF first = -1 \/ last = -1 THEN Throws(NoValue, MsgNoJson)
             ELSE LET cleaned == Slice(raw, first, last + 1)
                  IN  IF JSONParse(cleaned).ok THEN Returns(JSONParse(cleaned).value)
                      ELSE Throws(NoValue, MsgSyntaxError)

\* askGeminiForJSON, lines 51-61: strict parse, then the outermost brace pair.
DecodeReply(raw) ==
    IF JSONParse(raw).ok THEN Returns(JSONParse(raw).value)
    ELSE LET first == IndexOf(raw, "{")
             last == LastIndexOf(raw, "}")
         IN  IF first = -1 \/ last = -1 THEN Throws(NoValue, MsgNoJson)
             ELSE LET cleaned == Slice(raw, first, last + 1)
                  IN  IF JSONParse(cleaned).ok THEN Returns(JSONParse(cleaned).value)
                      ELSE Throws(NoValue, MsgSyntaxError)

\* What model.generateContent may do: reject, or resolve with a raw reply.
Rejects(m) == [kind |-> "rejects", text |-> <<>>, message |-> m]
Resolves(t) == [kind |-> "resolves", text |-> t, message |-> ""]

\* What model.generateContent did, as the handler's caller would describe it: the
\* client raised, the reply is JSON, the reply holds no "{" or no "}", or the text
\* from its first "{" to its last "}" is JSON ("wrapped") or is not ("garbled").
ReplyKind(outcome) ==
    IF outcome.kind = "rejects" THEN "raised"
    ELSE LET raw == outcome.text
             opens == {i \in 1..Len(raw) : raw[i] = "{"}
             closes == {i \in 1..Len(raw) : raw[i] = "}"}
         IN  IF JSONParse(raw).ok THEN "json"
             ELSE IF opens = {} \/ closes = {} THEN "braceless"
             ELSE IF SetMax(closes) > SetMin(opens)
                      /\ JSONParse(SubSeq(raw, SetMin(opens), SetMax(closes))).ok THEN "wrapped"
             ELSE "garbled"

\* askGeminiForJSON, lines 38-62, given what generateContent did.
askGeminiForJSON(outcome) ==
    IF outcome.kind = "rejects" THEN Throws(NoValue, outcome.message)
    ELSE DecodeReply(outcome.text)

\* extractTextFromImage, lines 16-33, given what Tesseract.recognize did.
extractTextFromImage(outcome) ==
    IF outcome.kind = "rejects" THEN Returns(<<>>)
    ELSE Returns(outcome.text)

----------------------------------------------------------------------------
(* The request and the environment *)

\* req.file.buffer: the uploaded bytes.
Buffers == {"%PDF-1.4 text layer", "%PDF-1.4 scanned page"}

\* req.file as multer's upload.single("resume") leaves it: absent, or one file.
Files == {<<>>} \cup {<<[buffer |-> b, originalname |-> "resume.pdf"]>> : b \in Buffers}

\* req.body.targetRole: absent, empty, or a role.
RoleFields == {<<>>, <<"">>, <<"Data Analyst">>}

\* pdfParse: rejects, or resolves with pdfData whose text may be undefined.
PdfOutcomes ==
    {Rejects(m) : m \in ErrorMessages}
        \cup {[kind |-> "resolves", text |-> t, message |-> ""] : t \in {<<>>} \cup {<<x>> : x \in Texts}}

\* Tesseract.recognize: rejects, or resolves with result.data.text.
OcrOutcomes == {Rejects(m) : m \in ErrorMessages} \cup {Resolves(t) : t \in Texts}

\* A reply that wraps a JSON object in prose, and one that wraps garbage in braces.
WrappedObject == <<" ", "{", "}", " ", "x">>
WrappedGarbage == <<"x", "{", "x", "}">>

\* The raw replies the request pipeline is run against: the short ones, and the wrapped ones.
PipelineReplies == {x \in RawReplies : Len(x) <= MaxRawLen - 2} \cup {WrappedObject, WrappedGarbage}

\* model.generateContent: rejects, or resolves with a raw reply.
AiOutcomes == {Rejects(m) : m \in ErrorMessages} \cup {Resolves(r) : r \in PipelineReplies}

----------------------------------------------------------------------------
(* The handler of POST /resume/upload *)

\* req.body.targetRole || "Software Developer (Fresher)"
RoleOrDefault(field) == IF field = <<>> \/ field[1] = "" THEN DefaultRole ELSE field[1]

\* Variant: the structured text is kept as extracted.
PdfTextUntrimmed(pdfData) == IF pdfData.text = <<>> THEN <<>> ELSE pdfData.text[1]

\* (pdfData.text || "").trim()
PdfText(pdfData) == Trim(IF pdfData.text = <<>> THEN <<>> ELSE pdfData.text[1])

\* Variant: OCR is also tried when the structured text is merely short.
NeedsOcrWhenShort(text) == text = <<>> \/ Len(Trim(text)) < MinTextLen

\* !resumeText, the test that sends the request to OCR.
NeedsOcr(text) == text = <<>>

\* Variant: the file's name is handed over in place of its bytes.
OcrInputFileName(file) == [image |-> file.originalname, lang |-> "eng"]

\* The arguments extractTextFromImage(req.file.buffer) hands to Tesseract.recognize.
OcrInput(file) == [image |-> file.buffer, lang |-> "eng"]

\* !resumeText || resumeText.trim().length === 0
NoTextFound(text) == text = <<>> \/ Len(Trim(text)) = 0

\* Variant: a text of exactly the threshold length is refused too.
TextTooShortInclusive(text) == text = <<>> \/ Len(Trim(text)) <= MinTextLen

\* !resumeText || resumeText.trim().length < 50
TextTooShort(text) == text = <<>> \/ Len(Trim(text)) < MinTextLen

\* The prompt template, with its two interpolations.
Prompt(role, text) == [targetRole |-> role, resumeText |-> text]

\* The wrapper askGeminiForJSON puts around the prompt.
JsonOnlyPrompt(prompt) == [preamble |-> "You are an API. Return ONLY valid JSON.", prompt |-> prompt]

ErrorBody(parts) == [error |-> parts]

\* Variant: the status is left at its default.
MissingFileResponseOk == [status |-> 200, body |-> ErrorBody(<<MsgMissingFile>>)]

MissingFileResponse == [status |-> 400, body |-> ErrorBody(<<MsgMissingFile>>)]
NoTextFoundResponse == [status |-> 400, body |-> ErrorBody(<<MsgNoTextFound>>)]
OcrFailedResponse(message) == [status |-> 400, body |-> ErrorBody(<<MsgOcrFailed, message>>)]
TextTooShortResponse == [status |-> 400, body |-> ErrorBody(<<MsgTextTooShort>>)]
\* Variant: the underlying message is passed on to the client.
AiFailedResponseLeaky(message) == [status |-> 500, body |-> ErrorBody(<<"AI analysis failed: ", message>>)]

AiFailedResponse(message) == [status |-> 500, body |-> ErrorBody(<<MsgAiFailed>>)]

SuccessResponse(role, file, text, analysis) ==
    [status |-> 200,
     body |-> [targetRole |-> role, fileName |-> file.originalname,
               extractedChars |-> Len(text), analysis |-> analysis]]

\* res.status(..).json(..): the response is written and the handler ends.
Respond(response) ==
    /\ responses' = Append(responses, response)
    /\ pc' = "responded"

\* Lines 124-159: the length gate, then the call of the AI service.
GateThenAnalyze(text) ==
    IF TextTooShort(text)
    THEN /\ Respond(TextTooShortResponse)
         /\ UNCHANGED aiCalls
    ELSE /\ aiCalls' = Append(aiCalls, JsonOnlyPrompt(Prompt(targetRole, text)))
         /\ pc' = "awaitAi"
         /\ UNCHANGED responses

\* Lines 81-94: the request arrives; without a file it ends here.
PostResumeUpload(file, field) ==
    /\ pc = "idle"
    /\ req' = [file |-> file, targetRole |-> field]
    /\ IF file = <<>>
       THEN /\ Respond(MissingFileResponse)
            /\ UNCHANGED <<targetRole, pdfCalls>>
       ELSE /\ targetRole' = RoleOrDefault(field)
            /\ pdfCalls' = Append(pdfCalls, file[1].buffer)
            /\ pc' = "awaitPdf"
            /\ UNCHANGED responses
    /\ UNCHANGED <<resumeText, aiResult, pdfOutcome, ocrOutcome, aiOutcome,
                   ocrCalls, aiCalls, reply, decoded>>

\* Lines 94-106 and 124-159: pdfParse settles.
PdfParseSettles(outcome) ==
    /\ pc = "awaitPdf"
    /\ pdfOutcome' = <<outcome>>
    /\ LET text == IF outcome.kind = "resolves" THEN PdfText(outcome) ELSE <<>>
       IN  /\ resumeText' = text
           /\ IF NeedsOcr(text)
              THEN /\ ocrCalls' = Append(ocrCalls, OcrInput(req.file[1]))
                   /\ pc' = "awaitOcr"
                   /\ UNCHANGED <<aiCalls, responses>>
              ELSE /\ GateThenAnalyze(text)
                   /\ UNCHANGED ocrCalls
    /\ UNCHANGED <<req, targetRole, aiResult, ocrOutcome, aiOutcome, pdfCalls, reply, decoded>>

\* Lines 20-32 and 106-159: Tesseract.recognize settles.
TesseractSettles(outcome) ==
    /\ pc = "awaitOcr"
    /\ ocrOutcome' = <<outcome>>
    /\ LET r == extractTextFromImage(outcome)
       IN  IF r.kind = "throws"
           THEN /\ Respond(OcrFailedResponse(r.message))
                /\ UNCHANGED <<resumeText, aiCalls>>
           ELSE /\ resumeText' = r.value
                /\ IF NoTextFound(r.value)
                   THEN /\ Respond(NoTextFoundResponse)
                        /\ UNCHANGED aiCalls
                   ELSE GateThenAnalyze(r.value)
    /\ UNCHANGED <<req, targetRole, aiResult, pdfOutcome, aiOutcome,
                   pdfCalls, ocrCalls, reply, decoded>>

\* Variant: a throw of askGeminiForJSON is not caught, and the handler ends unanswered.
GenerateContentSettlesUncaught(outcome) ==
    /\ pc = "awaitAi"
    /\ aiOutcome' = <<ReplyKind(outcome)>>
    /\ LET r == askGeminiForJSON(outcome)
       IN  /\ aiResult' = <<r>>
           /\ IF r.kind = "returns"
              THEN Respond(SuccessResponse(targetRole, req.file[1], resumeText, r.value))
              ELSE pc' = "crashed" /\ UNCHANGED responses
    /\ UNCHANGED <<req, targetRole, resumeText, pdfOutcome, ocrOutcome,
                   pdfCalls, ocrCalls, aiCalls, reply, decoded>>

\* Variant: a failed AI call is tried a second time.
GenerateContentSettlesRetry(outcome) ==
    /\ pc = "awaitAi"
    /\ aiOutcome' = <<ReplyKind(outcome)>>
    /\ LET r == askGeminiForJSON(outcome)
       IN  /\ aiResult' = <<r>>
           /\ IF r.kind = "returns"
              THEN Respond(SuccessResponse(targetRole, req.file[1], resumeText, r.value))
                   /\ UNCHANGED aiCalls
              ELSE IF Len(aiCalls) < 2
              THEN aiCalls' = Append(aiCalls, aiCalls[1]) /\ UNCHANGED <<pc, responses>>
              ELSE Respond(AiFailedResponse(r.message)) /\ UNCHANGED aiCalls
    /\ UNCHANGED <<req, targetRole, resumeText, pdfOutcome, ocrOutcome,
                   pdfCalls, ocrCalls, reply, decoded>>

\* Lines 48-61 and 159-174: model.generateContent settles.
GenerateContentSettles(outcome) ==
    /\ pc = "awaitAi"
    /\ aiOutcome' = <<ReplyKind(outcome)>>
    /\ LET r == askGeminiForJSON(outcome)
       IN  /\ aiResult' = <<r>>
           /\ IF r.kind = "returns"
              THEN Respond(SuccessResponse(targetRole, req.file[1], resumeText, r.value))
              ELSE Respond(AiFailedResponse(r.message))
    /\ UNCHANGED <<req, targetRole, resumeText, pdfOutcome, ocrOutcome,
                   pdfCalls, ocrCalls, aiCalls, reply, decoded>>

\* The decode of one raw reply, on its own (lines 49-61).
Decode ==
    /\ reply # <<>>
    /\ decoded = <<>>
    /\ decoded' = <<DecodeReply(reply[1])>>
    /\ UNCHANGED <<pc, req, targetRole, resumeText, aiResult, pdfOutcome, ocrOutcome, aiOutcome,
                   pdfCalls, ocrCalls, aiCalls, responses, reply>>

NoRequest == [file |-> <<>>, targetRole |-> <<>>]

Init ==
    /\ pc = "idle"
    /\ req = NoRequest
    /\ targetRole = ""
    /\ resumeText = <<>>
    /\ aiResult = <<>>
    /\ pdfOutcome = <<>>
    /\ ocrOutcome = <<>>
    /\ aiOutcome = <<>>
    /\ pdfCalls = <<>>
    /\ ocrCalls = <<>>
    /\ aiCalls = <<>>
    /\ responses = <<>>
    /\ reply = <<>>
    /\ decoded = <<>>

\* The decode specification: any raw reply, then its decode.
DecodeInit ==
    /\ pc = "idle"
    /\ req = NoRequest
    /\ targetRole = ""
    /\ resumeText = <<>>
    /\ aiResult = <<>>
    /\ pdfOutcome = <<>>
    /\ ocrOutcome = <<>>
    /\ aiOutcome = <<>>
    /\ pdfCalls = <<>>
    /\ ocrCalls = <<>>
    /\ aiCalls = <<>>
    /\ responses = <<>>
    /\ reply \in {<<raw>> : raw \in RawReplies}
    /\ decoded = <<>>

DecodeNext == Decode

DecodeSpec == DecodeInit /\ [][DecodeNext]_vars

Next ==
    \/ \E file \in Files, field \in RoleFields : PostResumeUpload(file, field)
    \/ \E outcome \in PdfOutcomes : PdfParseSettles(outcome)
    \/ \E outcome \in OcrOutcomes : TesseractSettles(outcome)
    \/ \E outcome \in AiOutcomes : GenerateContentSettles(outcome)

Spec == Init /\ [][Next]_vars

\* Every awaited external call eventually settles.
FairSpec ==
    /\ Spec
    /\ WF_vars(\E outcome \in PdfOutcomes : PdfParseSettles(outcome))
    /\ WF_vars(\E outcome \in OcrOutcomes : TesseractSettles(outcome))
    /\ WF_vars(\E outcome \in AiOutcomes : GenerateContentSettles(outcome))

----------------------------------------------------------------------------
(* What the claims speak about *)

\* The text the structured extractor yielded: empty when it raised or gave none.
PdfYield ==
    IF pdfOutcome # <<>> /\ pdfOutcome[1].kind = "resolves" /\ pdfOutcome[1].text # <<>>
    THEN pdfOutcome[1].text[1] ELSE <<>>

\* The text the OCR engine yielded: empty when it raised.
OcrYield ==
    IF ocrOutcome # <<>> /\ ocrOutcome[1].kind = "resolves" THEN ocrOutcome[1].text ELSE <<>>

\* The text extraction obtained: the structured one, or the OCR one once OCR has settled.
ObtainedText == IF ocrOutcome # <<>> THEN OcrYield ELSE PdfYield

ErrorResponse(status, parts) == [status |-> status, body |-> [error |-> parts]]

SuccessFields == {"targetRole", "fileName", "extractedChars", "analysis"}

AiFailureKinds == {"raised", "braceless", "garbled"}

----------------------------------------------------------------------------
(* Claims *)

\* C1: once the structured extractor has returned text that is non-empty after
\* trimming, the OCR recognizer is never invoked for the request, and when that
\* text is shorter than 50 trimmed characters the request has failed as
\* TextTooShort (400, the too-short message) without any OCR fallback.
C1_NonEmptyPdfTextSkipsOcr ==
    (pdfOutcome # <<>> /\ Len(Trim(PdfYield)) >= 1)
        => /\ ocrCalls = <<>>
           /\ ocrOutcome = <<>>
           /\ Len(Trim(PdfYield)) < MinTextLen
                => /\ pc = "responded"
                   /\ responses = <<ErrorResponse(400, <<MsgTextTooShort>>)>>

\* A short non-empty structured text has been answered.
C1_Witness ==
    /\ pc = "responded"
    /\ pdfOutcome # <<>>
    /\ Len(Trim(PdfYield)) \in 1..(MinTextLen - 1)
    /\ Len(PdfYield) > Len(Trim(PdfYield))

\* C2: with a file present, once the structured extractor has yielded empty or
\* whitespace-only text, or has raised, the OCR recognizer has been invoked
\* exactly once, with the uploaded payload bytes.
C2_EmptyPdfTextRunsOcrOnce ==
    (req.file # <<>> /\ pdfOutcome # <<>> /\ Trim(PdfYield) = <<>>)
        => ocrCalls = <<[image |-> req.file[1].buffer, lang |-> "eng"]>>

\* The request has been answered after an OCR fallback.
C2_Witness ==
    /\ pc = "responded"
    /\ req.file # <<>>
    /\ pdfOutcome # <<>>
    /\ Trim(PdfYield) = <<>>
    /\ ocrOutcome # <<>>
    /\ Len(ocrCalls) = 1

\* C3: when the OCR engine raises during the fallback, the request fails as
\* OcrFailed: 400 with the OCR-failure message followed by the underlying message.
C3_OcrRaiseIsOcrFailed ==
    (pc = "responded" /\ ocrOutcome # <<>> /\ ocrOutcome[1].kind = "rejects")
        => responses = <<ErrorResponse(400, <<MsgOcrFailed, ocrOutcome[1].message>>)>>

\* C4: for text obtained from either source (text that is non-empty after
\* trimming), the request fails as TextTooShort, with the AI service not invoked,
\* exactly when the trimmed length is below 50; at 50 or more the AI service is
\* invoked.  A yield that trims to nothing is never answered TextTooShort.
C4_LengthGate ==
    LET n == Len(Trim(ObtainedText))
    IN  /\ n >= 1
            => /\ (n < MinTextLen) <=> (responses = <<ErrorResponse(400, <<MsgTextTooShort>>)>>)
               /\ (n < MinTextLen) => (aiCalls = <<>> /\ pc = "responded")
               /\ (n >= MinTextLen) => (Len(aiCalls) = 1 /\ pc \in {"awaitAi", "responded"})
        /\ n = 0 => responses # <<ErrorResponse(400, <<MsgTextTooShort>>)>>

\* An OCR text of 49 trimmed characters, longer than that untrimmed, has been refused.
C4_Witness ==
    /\ pc = "responded"
    /\ ocrOutcome # <<>>
    /\ Len(Trim(OcrYield)) = MinTextLen - 1
    /\ Len(OcrYield) >= MinTextLen

\* C5: every failure of the report generator (the client raising, a reply with no
\* brace pair, a recovered substring that does not parse) is answered 500 with
\* exactly the generic message, every extraction-stage failure is answered 400,
\* and no failure is answered with the other status.
C5_StatusOfFailures ==
    pc = "responded"
        => /\ Len(responses) = 1
           /\ (aiOutcome # <<>> /\ aiOutcome[1] \in AiFailureKinds)
                => responses = <<ErrorResponse(500, <<MsgAiFailed>>)>>
           /\ aiOutcome = <<>> => responses[1].status = 400
           /\ responses[1].status = 500 => (aiOutcome # <<>> /\ aiOutcome[1] \in AiFailureKinds)
           /\ responses[1].status = 400 => (aiOutcome = <<>> /\ aiCalls = <<>>)

\* A reply whose brace-delimited part does not parse has been answered.
C5_Witness ==
    /\ pc = "responded"
    /\ aiOutcome = <<"garbled">>

\* C6: the decode of a raw reply returns the reply's JSON value when the reply
\* parses; otherwise the value of the text from the first "{" to the last "}";
\* and it fails when a brace is absent or that text (empty when the last "}"
\* precedes the first "{") does not parse.
C6_DecodeReply ==
    decoded # <<>>
        => LET raw == reply[1]
               got == decoded[1]
               opens == {i \in 1..Len(raw) : raw[i] = "{"}
               closes == {i \in 1..Len(raw) : raw[i] = "}"}
               between ==
                   IF SetMax(closes) < SetMin(opens) THEN <<>>
                   ELSE [i \in 1..(SetMax(closes) - SetMin(opens) + 1) |-> raw[SetMin(opens) + i - 1]]
           IN  IF JSONParse(raw).ok
               THEN got.kind = "returns" /\ got.value = JSONParse(raw).value
               ELSE IF opens = {} \/ closes = {}
               THEN got.kind = "throws"
               ELSE IF JSONParse(between).ok
               THEN got.kind = "returns" /\ got.value = JSONParse(between).value
               ELSE got.kind = "throws"

\* A reply that is not JSON itself has been decoded to the object it wraps.
C6_Witness ==
    /\ decoded # <<>>
    /\ ~JSONParse(reply[1]).ok
    /\ decoded[1].kind = "returns"
    /\ reply[1][1] = "x"
    /\ reply[1][Len(reply[1])] = "x"

\* The shape of a response: a full report, or an error and nothing else.
WellFormed(r) ==
    \/ r.status = 200 /\ DOMAIN r.body = SuccessFields
    \/ r.status \in {400, 500} /\ DOMAIN r.body = {"error"}

\* C7: every request, its external calls settling, reaches the responded state
\* with exactly one response written, a full report or an error body, and
\* nothing is written after it.
C7_ExactlyOneResponse ==
    /\ []((pc = "responded") <=> (Len(responses) = 1))
    /\ [](Len(responses) <= 1 /\ \A i \in 1..Len(responses) : WellFormed(responses[i]))
    /\ [][pc = "responded" => (pc' = "responded" /\ responses' = responses)]_vars
    /\ (pc # "idle") ~> (pc = "responded")

\* A full report has been written.
C7_Witness ==
    /\ pc = "responded"
    /\ responses[1].status = 200
    /\ ocrOutcome # <<>>

\* C8: a request without a file is answered 400 "File not uploaded" at once, and
\* neither the structured extractor, the OCR recognizer nor the AI service runs.
C8_MissingFile ==
    (pc # "idle" /\ req.file = <<>>)
        => /\ pc = "responded"
           /\ responses = <<ErrorResponse(400, <<MsgMissingFile>>)>>
           /\ pdfCalls = <<>> /\ ocrCalls = <<>> /\ aiCalls = <<>>
           /\ pdfOutcome = <<>> /\ ocrOutcome = <<>> /\ aiOutcome = <<>>

\* A request without a file has been answered.
C8_Witness ==
    /\ pc = "responded"
    /\ req.file = <<>>
    /\ req.targetRole # <<>>

\* C9: each external service is invoked at most once, OCR only after the
\* structured extractor has settled, the AI service only once extraction has
\* obtained at least 50 trimmed characters, and a failed AI call ends the request
\* with no second call.
C9_StrictSequenceNoRetry ==
    /\ Len(pdfCalls) <= 1 /\ Len(ocrCalls) <= 1 /\ Len(aiCalls) <= 1
    /\ ocrCalls # <<>> => (pdfOutcome # <<>> /\ Len(pdfCalls) = 1)
    /\ ocrOutcome # <<>> => ocrCalls # <<>>
    /\ aiCalls # <<>>
         => /\ pdfOutcome # <<>>
            /\ ocrCalls # <<>> => ocrOutcome # <<>>
            /\ Len(Trim(ObtainedText)) >= MinTextLen
    /\ aiOutcome # <<>> => (Len(aiCalls) = 1 /\ pc = "responded")

\* A failed AI call, after an OCR fallback, has ended the request.
C9_Witness ==
    /\ pc = "responded"
    /\ aiOutcome = <<"raised">>
    /\ Len(pdfCalls) = 1 /\ Len(ocrCalls) = 1 /\ Len(aiCalls) = 1

\* C10, as claimed: in every 200 response extractedChars is the trimmed length of
\* the extracted text and the prompt embeds that trimmed text, from either source.
C10_TrimmedEverywhere ==
    (pc = "responded" /\ responses[1].status = 200)
        => /\ responses[1].body.extractedChars = Len(Trim(ObtainedText))
           /\ aiCalls[1].prompt.resumeText = Trim(ObtainedText)

\* C10, amended: in every 200 response extractedChars is the length of the text
\* the prompt embeds; that text is the trimmed output of the structured extractor,
\* or, after an OCR fallback, the OCR output as returned, untrimmed, of which only
\* the trimmed length was held against the threshold.
C10_CountMatchesPromptText ==
    (pc = "responded" /\ responses[1].status = 200)
        => /\ Len(aiCalls) = 1
           /\ responses[1].body.extractedChars = Len(aiCalls[1].prompt.resumeText)
           /\ aiCalls[1].prompt.resumeText = (IF ocrOutcome = <<>> THEN Trim(PdfYield) ELSE OcrYield)
           /\ Len(Trim(aiCalls[1].prompt.resumeText)) >= MinTextLen

\* A report on an OCR text that carries leading and trailing whitespace.
C10_Witness ==
    /\ pc = "responded"
    /\ responses[1].status = 200
    /\ ocrOutcome # <<>>
    /\ OcrYield[1] \in WhiteSpace
    /\ OcrYield[Len(OcrYield)] \in WhiteSpace

====
